---- MODULE Spec2Model ----
(***************************************************************************)
(* Model of pinpon-support-ui: the Google Sheets bridge of                 *)
(* src/datapipe_core.py (facturas_read, facturas_upsert,                   *)
(* export_por_enviar_to_contador, sync_folios_from_contador,               *)
(* validate_facturas, gs_read, gs_write) and the column normaliser         *)
(* (_norm_name, normalize_columns).                                        *)
(*                                                                         *)
(* Text is a sequence of tokens: the token " " is one blank, every other   *)
(* token is a run of non-blank characters.  A worksheet cell holds Text    *)
(* (what get_all_values returns).  A DataFrame cell holds a value: a text, *)
(* a number or null (None / NaN).                                          *)
(***************************************************************************)
EXTENDS Integers, Sequences, FiniteSets, TLC

VARIABLES fact, cont, last, nops,      \* sheet bridge, one call at a time
          pc, loc, events,             \* sheet bridge, two interleaved callers
          ntab, nres,                  \* column normaliser
          notion                       \* load_from_notion: one call

vars == <<fact, cont, last, nops, pc, loc, events, ntab, nres, notion>>

Range(s) == {s[i] : i \in DOMAIN s}

Max(S) == CHOOSE x \in S : \A y \in S : y <= x

(* ------------------------------ values -------------------------------- *)

T(s) == [k |-> "s", s |-> s, n |-> 0]
N(n) == [k |-> "n", s |-> <<>>, n |-> n]
Null == [k |-> "null", s |-> <<>>, n |-> 0]

\* pd.notna
notna(v) == v.k # "null"

DigitTokens == <<"0", "1", "2", "3", "4", "5", "6", "7", "8", "9">>

IsDigit(t) == \E i \in DOMAIN DigitTokens : DigitTokens[i] = t

DigitVal(t) == (CHOOSE i \in DOMAIN DigitTokens : DigitTokens[i] = t) - 1

RECURSIVE LStrip(_)
LStrip(s) == IF s # <<>> /\ Head(s) = " " THEN LStrip(Tail(s)) ELSE s

RECURSIVE RStrip(_)
RStrip(s) ==
  IF s # <<>> /\ s[Len(s)] = " " THEN RStrip(SubSeq(s, 1, Len(s) - 1)) ELSE s

\* str.strip()
Strip(s) == RStrip(LStrip(s))

RECURSIVE IntOf(_)
IntOf(s) ==
  IF s = <<>> THEN 0
  ELSE IntOf(SubSeq(s, 1, Len(s) - 1)) * 10 + DigitVal(s[Len(s)])

RECURSIVE Digits(_)
Digits(n) ==
  IF n < 10 THEN <<DigitTokens[n + 1]>>
  ELSE Digits(n \div 10) \o <<DigitTokens[(n % 10) + 1]>>

\* int(text) succeeds: blanks around a non-empty run of digits
ParsesInt(s) == Strip(s) # <<>> /\ \A i \in DOMAIN Strip(s) : IsDigit(Strip(s)[i])

\* str(v)
PyStr(v) ==
  CASE v.k = "s" -> v.s
    [] v.k = "n" -> Digits(v.n)
    [] OTHER -> <<"None">>

\* get_all_records: every cell goes through gspread's numericise
numericise(s) == IF ParsesInt(s) THEN N(IntOf(Strip(s))) ELSE T(s)

\* df.fillna("").values.tolist(), as the cell then reads back
CellOf(v) ==
  CASE v.k = "s" -> v.s
    [] v.k = "n" -> Digits(v.n)
    [] OTHER -> <<>>

(* --------------------------- sheets, frames --------------------------- *)

EmptySheet == [cols |-> <<>>, rows |-> <<>>]

EmptyDF == [cols |-> <<>>, rows |-> <<>>]

\* DataFrame.empty
IsEmpty(df) == df.rows = <<>> \/ df.cols = <<>>

gs_read(sheet) ==
  IF sheet.rows = <<>> THEN EmptyDF
  ELSE [cols |-> sheet.cols,
        rows |-> [i \in DOMAIN sheet.rows |->
                   [c \in Range(sheet.cols) |-> numericise(sheet.rows[i][c])]]]

gs_write(df) ==
  IF IsEmpty(df) THEN EmptySheet
  ELSE [cols |-> df.cols,
        rows |-> [i \in DOMAIN df.rows |->
                   [c \in Range(df.cols) |-> CellOf(df.rows[i][c])]]]

REQUIRED_COLS ==
  <<"ID", "FECHA", "PACIENTE", "HOSPITAL", "PROVEEDOR", "CATEGORIA", "CONCEPTO">>

base_cols ==
  <<"ID", "FECHA", "PACIENTE", "HOSPITAL", "PROVEEDOR", "CATEGORIA", "CONCEPTO",
    "COSTO_MXN", "PRECIO_MXN", "IVA_16", "TOTAL_MXN", "ESTATUS", "FOLIO">>

money_cols == {"COSTO_MXN", "PRECIO_MXN", "IVA_16", "TOTAL_MXN"}

facturas_read(sheet) ==
  LET df == gs_read(sheet)
  IN  [cols |-> base_cols,
       rows |-> [i \in DOMAIN df.rows |->
                  [c \in Range(base_cols) |->
                     IF c \in Range(df.cols) THEN df.rows[i][c]
                     ELSE IF c \in money_cols THEN N(0) ELSE T(<<>>)]]]

\* mask_conc & df[REQUIRED_COLS].isna().any(axis=1), as the set of row numbers
InvalidRows(df) ==
  {i \in DOMAIN df.rows :
     /\ Strip(PyStr(df.rows[i]["CONCEPTO"])) # <<>>
     /\ \E c \in Range(REQUIRED_COLS) : ~notna(df.rows[i][c])}

\* [ok, invalid, raised]: raised is the ValueError for missing columns
validate_facturas(df) ==
  IF IsEmpty(df) THEN [ok |-> TRUE, invalid |-> {}, raised |-> FALSE]
  ELSE IF ~(Range(REQUIRED_COLS) \subseteq Range(df.cols))
       THEN [ok |-> FALSE, invalid |-> {}, raised |-> TRUE]
       ELSE [ok |-> InvalidRows(df) = {}, invalid |-> InvalidRows(df),
             raised |-> FALSE]

(* --------------------------- facturas_upsert -------------------------- *)

\* r.get(k, default) on an input row (a dict)
Get(r, k, default) == IF k \in DOMAIN r THEN r[k] ELSE default

\* the rows the dict comprehension of line 225 keeps
Keyed(df) ==
  {i \in DOMAIN df.rows :
     notna(df.rows[i]["ID"]) /\ Strip(PyStr(df.rows[i]["ID"])) # <<>>}

\* idx = {str(r["ID"]): i ...}: a later row with the same key wins
IdxOf(df) ==
  [key \in {PyStr(df.rows[i]["ID"]) : i \in Keyed(df)} |->
     Max({i \in Keyed(df) : PyStr(df.rows[i]["ID"]) = key})]

\* rid = str(r.get("ID", "")).strip()
RidOf(r) == Strip(PyStr(Get(r, "ID", T(<<>>))))

\* for k, v in r.items(): if k in df.columns: df.at[i, k] = v
UpdateRow(df, i, r) ==
  [df EXCEPT !.rows[i] =
     [c \in Range(df.cols) |-> IF c \in DOMAIN r THEN r[c] ELSE df.rows[i][c]]]

AppendRow_over_last(df, r) ==
  IF df.rows = <<>>
  THEN [df EXCEPT !.rows = <<[c \in Range(df.cols) |-> Get(r, c, T(<<>>))]>>]
  ELSE [df EXCEPT !.rows[Len(df.rows)] =
          [c \in Range(df.cols) |-> Get(r, c, T(<<>>))]]

\* new = {c: r.get(c, "") for c in df.columns}; df.loc[len(df)] = new
AppendRow(df, r) ==
  [df EXCEPT !.rows =
     Append(df.rows, [c \in Range(df.cols) |-> Get(r, c, T(<<>>))])]

RECURSIVE UpsertLoop(_, _, _)
UpsertLoop(df, idx, rows) ==
  IF rows = <<>> THEN df
  ELSE LET r == Head(rows)
           rid == RidOf(r)
       IN  IF rid = <<>> THEN UpsertLoop(df, idx, Tail(rows))
           ELSE IF rid \in DOMAIN idx
                THEN UpsertLoop(UpdateRow(df, idx[rid], r), idx, Tail(rows))
                ELSE UpsertLoop(AppendRow(df, r),
                                [key \in DOMAIN idx \cup {rid} |->
                                   IF key = rid THEN Len(df.rows) + 1
                                   ELSE idx[key]],
                                Tail(rows))

\* the frame facturas_upsert validates: lines 223-237
upsert_frame(sheet, rows) ==
  LET df == facturas_read(sheet) IN UpsertLoop(df, IdxOf(df), rows)

upsert_sheet_unvalidated(sheet, rows) == gs_write(upsert_frame(sheet, rows))

\* the Invoice sheet after facturas_upsert: lines 238-243
upsert_sheet(sheet, rows) ==
  IF validate_facturas(upsert_frame(sheet, rows)).ok
  THEN gs_write(upsert_frame(sheet, rows))
  ELSE sheet

(* -------------------- export_por_enviar_to_contador ------------------- *)

\* df["ESTATUS"].fillna("").eq("Por enviar")
IsPorEnviar(v) == v.k = "s" /\ v.s = <<"Por enviar">>

SelectRows(rows, keep) ==
  LET F[i \in 0..Len(rows)] ==
        IF i = 0 THEN <<>>
        ELSE IF keep[i] THEN Append(F[i - 1], rows[i]) ELSE F[i - 1]
  IN  F[Len(rows)]

\* out = df[...].copy(); out["FOLIO"] = out.get("FOLIO", "") assigns the
\* column to itself
export_frame(sheet) ==
  LET df == facturas_read(sheet)
  IN  [cols |-> df.cols,
       rows |-> SelectRows(df.rows,
                           [i \in DOMAIN df.rows |->
                              IsPorEnviar(df.rows[i]["ESTATUS"])])]

export_sheet_always_written(factSheet, contSheet) ==
  gs_write(export_frame(factSheet))

\* the accountant sheet after the export: lines 249-252
export_sheet(factSheet, contSheet) ==
  IF IsEmpty(export_frame(factSheet)) THEN contSheet
  ELSE gs_write(export_frame(factSheet))

(* --------------------- sync_folios_from_contador ---------------------- *)

\* base.at[i, c] = v; a label that is not a column yet becomes one
SetCell(df, i, c, v) ==
  IF c \in Range(df.cols) THEN [df EXCEPT !.rows[i][c] = v]
  ELSE [cols |-> Append(df.cols, c),
        rows |-> [j \in DOMAIN df.rows |->
                   [cc \in Range(df.cols) \cup {c} |->
                      IF cc = c THEN (IF j = i THEN v ELSE Null)
                      ELSE df.rows[j][cc]]]]

\* str(idv) in cont_map.index: the accountant rows whose ID is that string
ContHits(cdf, idv) ==
  {j \in DOMAIN cdf.rows : cdf.rows[j]["ID"] = T(PyStr(idv))}

\* folio, est = cont_map.loc[str(idv), ["FOLIO","ESTATUS"]]: one hit gives
\* the row's two values; several hits give a frame, whose iteration yields
\* its column labels
Looked(cdf, idv) ==
  IF Cardinality(ContHits(cdf, idv)) = 1
  THEN LET j == CHOOSE j \in ContHits(cdf, idv) : TRUE
       IN  <<cdf.rows[j]["FOLIO"], cdf.rows[j]["ESTATUS"]>>
  ELSE <<T(<<"FOLIO">>), T(<<"ESTATUS">>)>>

overwrites_unless_null(v) == notna(v)

\* pd.notna(v) and str(v).strip()
overwrites(v) == notna(v) /\ Strip(PyStr(v)) # <<>>

SyncRow(df, cdf, i) ==
  LET idv == IF "ID" \in Range(df.cols) THEN df.rows[i]["ID"] ELSE Null
  IN  IF notna(idv) /\ ContHits(cdf, idv) # {}
      THEN LET fe == Looked(cdf, idv)
               d1 == IF overwrites(fe[1]) THEN SetCell(df, i, "FOLIO", fe[1])
                     ELSE df
           IN  IF overwrites(fe[2]) THEN SetCell(d1, i, "ESTATUS", fe[2])
               ELSE d1
      ELSE df

RECURSIVE SyncLoop(_, _, _)
SyncLoop(df, cdf, i) ==
  IF i > Len(df.rows) THEN df ELSE SyncLoop(SyncRow(df, cdf, i), cdf, i + 1)

SyncRequired == {"ID", "FOLIO", "ESTATUS"}

\* "returned" (either sheet empty), "raised" (columns missing) or "written"
sync_outcome(factSheet, contSheet) ==
  IF IsEmpty(gs_read(factSheet)) \/ IsEmpty(gs_read(contSheet)) THEN "returned"
  ELSE IF ~(SyncRequired \subseteq Range(gs_read(contSheet).cols)) THEN "raised"
       ELSE "written"

sync_frame(factSheet, contSheet) ==
  SyncLoop(gs_read(factSheet), gs_read(contSheet), 1)

\* the Invoice sheet after sync_folios_from_contador
sync_sheet(factSheet, contSheet) ==
  IF sync_outcome(factSheet, contSheet) = "written"
  THEN gs_write(sync_frame(factSheet, contSheet))
  ELSE factSheet

(* ------------------------- sheets and inputs -------------------------- *)

\* a worksheet row: the cells given, every other cell blank
SheetRow(cols, given) ==
  [c \in Range(cols) |-> IF c \in DOMAIN given THEN given[c] ELSE <<>>]

Sheet(cols, givens) ==
  [cols |-> cols, rows |-> [i \in DOMAIN givens |-> SheetRow(cols, givens[i])]]

cont_cols == <<"ID", "FOLIO", "ESTATUS">>

\* Invoice sheets the calls may find
InitFact ==
  { EmptySheet,
    Sheet(base_cols,
          << [ID |-> <<"A">>, CONCEPTO |-> <<"servicio">>, PACIENTE |-> <<"Ana">>,
              ESTATUS |-> <<"Por enviar">>, FOLIO |-> <<"F9">>],
             [ID |-> <<"B">>, ESTATUS |-> <<"Timbrada">>, FOLIO |-> <<"F8">>] >>),
    Sheet(base_cols,
          << [ID |-> <<"1">>, ESTATUS |-> <<"Por enviar">>],
             [ID |-> <<"2">>, ESTATUS |-> <<"Pagada">>, FOLIO |-> <<"0", "7">>] >>),
    Sheet(base_cols,
          << [ID |-> <<"A">>, ESTATUS |-> <<"Timbrada">>, FOLIO |-> <<"F9">>] >>) }

\* Accountant sheets the calls may find: as exported, or as the accountant
\* left them
InitCont ==
  { EmptySheet,
    Sheet(cont_cols,
          << [ID |-> <<"A">>, FOLIO |-> <<"F7">>, ESTATUS |-> <<"Timbrada">>],
             [ID |-> <<"B">>, FOLIO |-> <<" ">>] >>),
    Sheet(cont_cols,
          << [ID |-> <<"1">>, FOLIO |-> <<"F7">>, ESTATUS |-> <<"Timbrada">>] >>),
    Sheet(<<"ID", "FOLIO">>, << [ID |-> <<"A">>, FOLIO |-> <<"F7">>] >>),
    Sheet(cont_cols,
          << [ID |-> <<"A">>, FOLIO |-> <<"F7">>, ESTATUS |-> <<"Timbrada">>],
             [ID |-> <<"A">>, FOLIO |-> <<"F6">>, ESTATUS |-> <<"Pagada">>] >>) }

\* the row lists facturas_upsert is called with
UpsertInputs ==
  { << [ID |-> T(<<"A">>), CONCEPTO |-> T(<<"servicio">>),
        PACIENTE |-> T(<<"Ana">>), ESTATUS |-> T(<<"Por enviar">>)] >>,
    << [ID |-> T(<<"A">>), ESTATUS |-> T(<<"Pagada">>)] >>,
    << [ID |-> T(<<" ", "A">>), FOLIO |-> T(<<"F1">>)] >>,
    << [ID |-> N(1), ESTATUS |-> T(<<"Timbrada">>)] >>,
    << [ID |-> T(<<"B">>), CONCEPTO |-> T(<<"servicio">>)] >>,
    << [ID |-> T(<<"B">>), CONCEPTO |-> T(<<"servicio">>), PACIENTE |-> Null] >>,
    << [ID |-> T(<<"B">>), CONCEPTO |-> T(<<>>), PACIENTE |-> Null] >>,
    << [ID |-> T(<<"B">>), CONCEPTO |-> Null, PACIENTE |-> T(<<"Ana">>)] >>,
    << [ID |-> T(<<>>), ESTATUS |-> T(<<"Pagada">>)] >>,
    << [ID |-> T(<<"A">>), NOTAS |-> T(<<"x">>)] >>,
    << [ID |-> T(<<"C">>), ESTATUS |-> T(<<"Por enviar">>)],
       [ID |-> T(<<"B">>), CONCEPTO |-> T(<<"servicio">>), FECHA |-> Null] >> }

\* calls made in one run
MaxOps == 2

NoCall ==
  [op |-> "init", rows |-> <<>>, pre |-> EmptySheet, preCont |-> EmptySheet,
   ok |-> TRUE, again |-> FALSE]

IdleConc == <<>>

NoQuery == <<>>

(* ------------------------- one call at a time ------------------------- *)

Init ==
  /\ fact \in InitFact
  /\ cont \in InitCont
  /\ last = NoCall
  /\ nops = 0
  /\ pc = IdleConc /\ loc = IdleConc /\ events = <<>>
  /\ ntab = EmptyDF /\ nres = EmptyDF
  /\ notion = NoQuery

facturas_upsert ==
  /\ nops < MaxOps
  /\ \E rows \in UpsertInputs :
       /\ fact' = upsert_sheet(fact, rows)
       /\ last' = [op |-> "upsert", rows |-> rows, pre |-> fact, preCont |-> cont,
                   ok |-> validate_facturas(upsert_frame(fact, rows)).ok,
                   again |-> last.op = "upsert" /\ last.rows = rows /\ last.ok]
  /\ nops' = nops + 1
  /\ UNCHANGED <<cont, pc, loc, events, ntab, nres, notion>>

export_por_enviar_to_contador ==
  /\ nops < MaxOps
  /\ cont' = export_sheet(fact, cont)
  /\ last' = [op |-> "export", rows |-> <<>>, pre |-> fact, preCont |-> cont,
              ok |-> TRUE, again |-> FALSE]
  /\ nops' = nops + 1
  /\ UNCHANGED <<fact, pc, loc, events, ntab, nres, notion>>

sync_folios_from_contador ==
  /\ nops < MaxOps
  /\ fact' = sync_sheet(fact, cont)
  /\ last' = [op |-> "sync", rows |-> <<>>, pre |-> fact, preCont |-> cont,
              ok |-> sync_outcome(fact, cont) # "raised", again |-> FALSE]
  /\ nops' = nops + 1
  /\ UNCHANGED <<cont, pc, loc, events, ntab, nres, notion>>

Next ==
  \/ facturas_upsert
  \/ export_por_enviar_to_contador
  \/ sync_folios_from_contador

Spec == Init /\ [][Next]_vars

(* ------------------------------ claims -------------------------------- *)

\* an input row that names an ID which is neither null nor the empty string
HasId(r) == "ID" \in DOMAIN r /\ notna(r["ID"]) /\ PyStr(r["ID"]) # <<>>

\* the rows of a sheet whose ID cell shows the value v
RowsWithId(sheet, v) ==
  {i \in DOMAIN sheet.rows : sheet.rows[i]["ID"] = CellOf(v)}

\* C1: a second facturas_upsert call with the row list of the call before it
\* (both calls completed) leaves the Invoice sheet as the first call left it,
\* with exactly one row for each non-empty ID of the list.
C1_UpsertIdempotent ==
  (last.op = "upsert" /\ last.again /\ last.ok) =>
     /\ fact = last.pre
     /\ \A n \in DOMAIN last.rows :
          HasId(last.rows[n]) =>
             Cardinality(RowsWithId(fact, last.rows[n]["ID"])) = 1

\* C2: facturas_upsert with one row whose ID is the ID of a stored row adds
\* no row, overwrites on one such row the fields the input row has, and
\* leaves every other cell of the sheet as stored.
C2_PartialUpdate ==
  (last.op = "upsert" /\ last.ok /\ Len(last.rows) = 1
     /\ HasId(last.rows[1])
     /\ RowsWithId(last.pre, last.rows[1]["ID"]) # {}) =>
     /\ Len(fact.rows) = Len(last.pre.rows)
     /\ \E m \in RowsWithId(last.pre, last.rows[1]["ID"]) :
          \A i \in DOMAIN last.pre.rows : \A c \in Range(last.pre.cols) :
             fact.rows[i][c] =
               IF i = m /\ c \in DOMAIN last.rows[1]
               THEN CellOf(last.rows[1][c])
               ELSE last.pre.rows[i][c]

\* C3: when the frame facturas_upsert built fails validation the call
\* raises and both sheets are what they were before it; the Invoice sheet
\* changes only in a call whose frame passed validation.
C3_AllOrNothing ==
  last.op = "upsert" =>
     /\ ~validate_facturas(upsert_frame(last.pre, last.rows)).ok =>
          (~last.ok /\ fact = last.pre /\ cont = last.preCont)
     /\ fact # last.pre => validate_facturas(upsert_frame(last.pre, last.rows)).ok

\* C3 witness: a call that would have changed the sheet was refused
C3_Witness ==
  /\ last.op = "upsert" /\ ~last.ok
  /\ last.pre # EmptySheet
  /\ gs_write(upsert_frame(last.pre, last.rows)) # last.pre
  /\ fact = last.pre

\* the stored rows whose ESTATUS cell is "Por enviar", in order
PendingRows(sheet) ==
  SelectRows(sheet.rows,
             [i \in DOMAIN sheet.rows |->
                "ESTATUS" \in Range(sheet.cols)
                /\ sheet.rows[i]["ESTATUS"] = <<"Por enviar">>])

\* C4: after an export that found rows with ESTATUS "Por enviar", the
\* accountant sheet holds exactly those rows, each with an empty FOLIO.
C4_ExportFilter ==
  (last.op = "export" /\ PendingRows(last.pre) # <<>>) =>
     /\ Len(cont.rows) = Len(PendingRows(last.pre))
     /\ \A i \in DOMAIN cont.rows :
          /\ cont.rows[i]["ID"] = PendingRows(last.pre)[i]["ID"]
          /\ cont.rows[i]["ESTATUS"] = <<"Por enviar">>
          /\ cont.rows[i]["FOLIO"] = <<>>

SyncFields == {"FOLIO", "ESTATUS"}

\* C5: sync_folios_from_contador keeps every row, and a FOLIO or ESTATUS
\* cell that was non-empty (non-blank) before the call is non-empty
\* (non-blank) after it.
C5_SyncNonDestructive ==
  last.op = "sync" =>
     /\ Len(fact.rows) = Len(last.pre.rows)
     /\ \A i \in DOMAIN last.pre.rows :
          \A c \in SyncFields \cap Range(last.pre.cols) :
             /\ last.pre.rows[i][c] # <<>> => fact.rows[i][c] # <<>>
             /\ Strip(last.pre.rows[i][c]) # <<>> => Strip(fact.rows[i][c]) # <<>>

\* C5 witness: the sync wrote, an invoice row met an accountant row with a
\* blank FOLIO, and kept its own
C5_Witness ==
  /\ last.op = "sync"
  /\ sync_outcome(last.pre, last.preCont) = "written"
  /\ fact # last.pre
  /\ \E i \in DOMAIN last.pre.rows : \E j \in DOMAIN last.preCont.rows :
       /\ last.preCont.rows[j]["ID"] = last.pre.rows[i]["ID"]
       /\ Strip(last.preCont.rows[j]["FOLIO"]) = <<>>
       /\ Strip(last.pre.rows[i]["FOLIO"]) # <<>>
       /\ fact.rows[i]["FOLIO"] = last.pre.rows[i]["FOLIO"]

\* C6: after a sync over two non-empty sheets, the accountant sheet having
\* ID, FOLIO and ESTATUS, every invoice row whose ID is the ID of exactly
\* one accountant row (as text or as number) has that row's FOLIO when it
\* is non-blank, and that row's ESTATUS when it is non-blank.
C6_SyncPropagates ==
  (last.op = "sync" /\ sync_outcome(last.pre, last.preCont) = "written") =>
     \A i \in DOMAIN last.pre.rows : \A j \in DOMAIN last.preCont.rows :
        (/\ numericise(last.pre.rows[i]["ID"])
              = numericise(last.preCont.rows[j]["ID"])
         /\ \A k \in DOMAIN last.preCont.rows :
              last.preCont.rows[k]["ID"] = last.preCont.rows[j]["ID"] => k = j) =>
           \A c \in SyncFields :
              Strip(last.preCont.rows[j][c]) # <<>> =>
                 numericise(fact.rows[i][c]) = numericise(last.preCont.rows[j][c])

BusinessKeys == {"ID", "FECHA", "PACIENTE", "HOSPITAL", "PROVEEDOR", "CATEGORIA"}

\* a value that is missing: null, or a text that is blank
Missing(v) == ~notna(v) \/ (v.k = "s" /\ Strip(v.s) = <<>>)

\* C7: in the frame facturas_upsert validates, a row is flagged exactly
\* when its CONCEPTO is non-empty after trim and one of its business keys
\* is missing, and the result is true exactly when no row is flagged.
C7_ValidationTrigger ==
  (last.op = "upsert" /\ ~IsEmpty(upsert_frame(last.pre, last.rows))) =>
     LET df == upsert_frame(last.pre, last.rows)
         v == validate_facturas(df)
     IN  /\ \A i \in DOMAIN df.rows :
              i \in v.invalid <=>
                 (/\ ~Missing(df.rows[i]["CONCEPTO"])
                  /\ \E c \in BusinessKeys : Missing(df.rows[i][c]))
         /\ last.ok <=> v.invalid = {}

\* C10: the export leaves the Invoice sheet alone; with no "Por enviar" row
\* it leaves the accountant sheet alone; otherwise the accountant sheet
\* becomes the exported rows, nothing else, under the invoice columns.
C10_ExportEffect ==
  last.op = "export" =>
     /\ fact = last.pre
     /\ PendingRows(last.pre) = <<>> => cont = last.preCont
     /\ PendingRows(last.pre) # <<>> =>
          /\ cont.cols = base_cols
          /\ Len(cont.rows) = Len(PendingRows(last.pre))
          /\ \A i \in DOMAIN cont.rows : \A c \in Range(last.pre.cols) :
               cont.rows[i][c] = CellOf(numericise(PendingRows(last.pre)[i][c]))

\* C10 witness: an export replaced an accountant sheet that held more rows
C10_Witness ==
  /\ last.op = "export"
  /\ PendingRows(last.pre) # <<>>
  /\ Len(last.preCont.rows) > Len(PendingRows(last.pre))
  /\ Len(cont.rows) = Len(PendingRows(last.pre))

(* ------------------------- normalize_columns -------------------------- *)

\* str.lower() on the tokens the labels below are made of
LowerTok(t) ==
  CASE t = "Precio" -> "precio"
    [] t = "PV" -> "pv"
    [] t = "IVA" -> "iva"
    [] t = "Total" -> "total"
    [] t = "Paciente" -> "paciente"
    [] OTHER -> t

Lower(s) == [i \in DOMAIN s |-> LowerTok(s[i])]

\* _CANON, in the order of the dict
CANON ==
  << [k |-> <<"precio_venta">>,
      aliases |-> {<<"precio_venta">>, <<"precio">>, <<"venta">>, <<"pv">>,
                   <<"precio", " ", "final">>, <<"monto">>, <<"importe">>}],
     [k |-> <<"costo_proveedor">>,
      aliases |-> {<<"costo_proveedor">>, <<"costo">>, <<"cp">>,
                   <<"costo", " ", "unitario">>, <<"compra">>}],
     [k |-> <<"iva">>, aliases |-> {<<"iva">>, <<"impuesto">>, <<"vat">>}],
     [k |-> <<"total">>,
      aliases |-> {<<"total">>, <<"importe_total">>, <<"monto_total">>}] >>

\* the entries of _CANON that s names
CanonHits(s) == {n \in DOMAIN CANON : s = CANON[n].k \/ s \in CANON[n].aliases}

norm_name_without_lower(s) ==
  IF CanonHits(Strip(s)) # {}
  THEN CANON[CHOOSE n \in CanonHits(Strip(s)) :
               \A m \in CanonHits(Strip(s)) : n <= m].k
  ELSE Strip(s)

\* _norm_name
norm_name(s) ==
  IF CanonHits(Lower(Strip(s))) # {}
  THEN CANON[CHOOSE n \in CanonHits(Lower(Strip(s))) :
               \A m \in CanonHits(Lower(Strip(s))) : n <= m].k
  ELSE Lower(Strip(s))

\* pd.to_numeric(..., errors="coerce") on one cell
to_numeric(v) ==
  CASE v.k = "n" -> v
    [] v.k = "s" /\ v.s # <<>> /\ (\A i \in DOMAIN v.s : IsDigit(v.s[i]))
         -> N(IntOf(v.s))
    [] OTHER -> Null

numeric_cols == <<<<"precio_venta">>, <<"costo_proveedor">>, <<"iva">>, <<"total">>>>

\* the positions of the columns labelled c
ColsNamed(cols, c) == {i \in DOMAIN cols : cols[i] = c}

ColOf(cols, c) == CHOOSE i \in ColsNamed(cols, c) : TRUE

Plus(a, b) == IF notna(a) /\ notna(b) THEN N(a.n + b.n) ELSE Null

Minus(a, b) == IF notna(a) /\ notna(b) THEN N(a.n - b.n) ELSE Null

\* lines 31-33: df[col] of a label that two columns carry is a frame, and
\* pd.to_numeric raises on it
CoerceRaises(cols) ==
  \E n \in DOMAIN numeric_cols : Cardinality(ColsNamed(cols, numeric_cols[n])) > 1

Coerced(cols, rows) ==
  [r \in DOMAIN rows |->
     [i \in DOMAIN cols |->
        IF cols[i] \in Range(numeric_cols) THEN to_numeric(rows[r][i])
        ELSE rows[r][i]]]

\* lines 36-39: the column added from the other two, if any
Derived(cols, rows) ==
  LET has(c) == ColsNamed(cols, <<c>>) # {}
      at(r, c) == rows[r][ColOf(cols, <<c>>)]
  IN  IF ~has("total") /\ has("precio_venta") /\ has("iva")
      THEN [status |-> "ok", cols |-> Append(cols, <<"total">>),
            rows |-> [r \in DOMAIN rows |->
                        Append(rows[r], Plus(at(r, "precio_venta"), at(r, "iva")))]]
      ELSE IF ~has("iva") /\ has("precio_venta") /\ has("total")
           THEN [status |-> "ok", cols |-> Append(cols, <<"iva">>),
                 rows |-> [r \in DOMAIN rows |->
                             Append(rows[r],
                                    Minus(at(r, "total"), at(r, "precio_venta")))]]
           ELSE [status |-> "ok", cols |-> cols, rows |-> rows]

\* normalize_columns on a frame whose columns are addressed by position
normalize_columns(df) ==
  IF IsEmpty(df) THEN [status |-> "ok", cols |-> df.cols, rows |-> df.rows]
  ELSE LET cols == [i \in DOMAIN df.cols |-> norm_name(df.cols[i])]
       IN  IF CoerceRaises(cols)
           THEN [status |-> "raised", cols |-> <<>>, rows |-> <<>>]
           ELSE Derived(cols, Coerced(cols, df.rows))

\* columns of a frame handed to the normaliser
MaxCols == 2

Labels ==
  { <<"precio">>, <<" ", "Precio", " ">>, <<"PV">>, <<"IVA", " ">>, <<"total">>,
    <<"monto_total">>, <<"costo">>, <<"Paciente">>, <<" ", "paciente">>,
    <<"precio", " ", "final">> }

NormValues == { N(100), T(<<"1", "6">>), T(<<"x">>) }

NormTables ==
  UNION { { [cols |-> cs, rows |-> rs] :
              rs \in {<<>>} \cup {<<r>> : r \in [DOMAIN cs -> NormValues]} } :
          cs \in UNION {[1..n -> Labels] : n \in 0..MaxCols} }

NotRun == [status |-> "none", cols |-> <<>>, rows |-> <<>>]

InitNorm ==
  /\ ntab \in NormTables
  /\ nres = NotRun
  /\ fact = EmptySheet /\ cont = EmptySheet /\ last = NoCall /\ nops = 0
  /\ pc = IdleConc /\ loc = IdleConc /\ events = <<>>
  /\ notion = NoQuery

Normalize ==
  /\ nres.status = "none"
  /\ nres' = normalize_columns(ntab)
  /\ UNCHANGED <<ntab, fact, cont, last, nops, pc, loc, events, notion>>

NextNorm == Normalize

SpecNorm == InitNorm /\ [][NextNorm]_vars

\* the canonical name the trimmed, lower-cased label stands for, if any
Canonical(label) ==
  {CANON[n].k : n \in {m \in DOMAIN CANON :
                         Lower(Strip(label)) \in CANON[m].aliases \cup {CANON[m].k}}}

Callers == {1, 2}

\* the calls a caller may make
ConcCalls ==
  { [op |-> "upsert", rows |-> << [ID |-> T(<<"A">>), PACIENTE |-> T(<<"Eva">>)] >>],
    [op |-> "upsert",
     rows |-> << [ID |-> T(<<"C">>), CONCEPTO |-> T(<<"servicio">>)] >>],
    [op |-> "upsert",
     rows |-> << [ID |-> T(<<"D">>), CONCEPTO |-> T(<<"servicio">>),
                  FECHA |-> Null] >>],
    [op |-> "sync", rows |-> <<>>] }

InitFactConc ==
  { Sheet(base_cols,
          << [ID |-> <<"A">>, CONCEPTO |-> <<"servicio">>, PACIENTE |-> <<"Ana">>,
              ESTATUS |-> <<"Por enviar">>],
             [ID |-> <<"B">>, ESTATUS |-> <<"Timbrada">>, FOLIO |-> <<"F8">>] >>),
    Sheet(base_cols,
          << [ID |-> <<"A">>, ESTATUS |-> <<"Por enviar">>, FOLIO |-> <<"F9">>] >>) }

InitContConc ==
  { EmptySheet,
    Sheet(cont_cols,
          << [ID |-> <<"A">>, FOLIO |-> <<"F7">>, ESTATUS |-> <<"Timbrada">>],
             [ID |-> <<"B">>, FOLIO |-> <<" ">>] >>) }

NoLoc == [call |-> [op |-> "none", rows |-> <<>>], snapF |-> EmptySheet,
          snapC |-> EmptySheet]

\* does the call, run on what it read, reach its gs_write
conc_writes(call, snapF, snapC) ==
  IF call.op = "upsert" THEN validate_facturas(upsert_frame(snapF, call.rows)).ok
  ELSE sync_outcome(snapF, snapC) = "written"

\* the whole table the call hands to gs_write, built from what it read
conc_table(call, snapF, snapC) ==
  IF call.op = "upsert" THEN upsert_sheet(snapF, call.rows)
  ELSE sync_sheet(snapF, snapC)

InitConc ==
  /\ fact \in InitFactConc
  /\ cont \in InitContConc
  /\ pc = [c \in Callers |-> "idle"]
  /\ loc = [c \in Callers |-> NoLoc]
  /\ events = <<>>
  /\ last = NoCall /\ nops = 0
  /\ ntab = EmptyDF /\ nres = EmptyDF
  /\ notion = NoQuery

\* facturas_read / gs_read at the head of the call
CallRead(c) ==
  /\ pc[c] = "idle"
  /\ \E call \in ConcCalls :
       loc' = [loc EXCEPT ![c] = [call |-> call, snapF |-> fact, snapC |-> cont]]
  /\ pc' = [pc EXCEPT ![c] = "read"]
  /\ events' = Append(events, <<c, "read">>)
  /\ UNCHANGED <<fact, cont, last, nops, ntab, nres, notion>>

\* the rest of the call: the loop, the checks, gs_write
CallWrite(c) ==
  /\ pc[c] = "read"
  /\ fact' = IF conc_writes(loc[c].call, loc[c].snapF, loc[c].snapC)
             THEN conc_table(loc[c].call, loc[c].snapF, loc[c].snapC)
             ELSE fact
  /\ pc' = [pc EXCEPT ![c] = "done"]
  /\ events' = Append(events,
                      <<c, IF conc_writes(loc[c].call, loc[c].snapF, loc[c].snapC)
                           THEN "write" ELSE "end">>)
  /\ UNCHANGED <<cont, loc, last, nops, ntab, nres, notion>>

NextConc == \E c \in Callers : CallRead(c) \/ CallWrite(c)

SpecConc == InitConc /\ [][NextConc]_vars

Pos(e) == CHOOSE n \in DOMAIN events : events[n] = e

BothWrote ==
  \A c \in Callers : pc[c] = "done" /\ <<c, "write">> \in Range(events)

FirstWriter ==
  CHOOSE c \in Callers : \A d \in Callers : Pos(<<c, "write">>) <= Pos(<<d, "write">>)

SecondWriter == CHOOSE c \in Callers : c # FirstWriter

\* both callers read before either wrote
Interleaved == Pos(<<SecondWriter, "read">>) < Pos(<<FirstWriter, "write">>)

\* what the call set out to store is in the sheet
Present(call, snapC, sheet) ==
  IF call.op = "upsert"
  THEN \A n \in DOMAIN call.rows :
          \E i \in DOMAIN sheet.rows :
             \A k \in DOMAIN call.rows[n] \cap Range(sheet.cols) :
                sheet.rows[i][k] = CellOf(call.rows[n][k])
  ELSE \A i \in DOMAIN sheet.rows : \A j \in DOMAIN snapC.rows :
          sheet.rows[i]["ID"] = snapC.rows[j]["ID"] =>
             \A f \in SyncFields :
                Strip(snapC.rows[j][f]) # <<>> => sheet.rows[i][f] = snapC.rows[j][f]

\* C9: when two calls (upsert or sync) both wrote, the sheet is the whole
\* table of the second writer, built from what that caller read; if both
\* read before either wrote, that is the table built from the sheet both
\* read, whatever the first writer stored; if the second read after the
\* first wrote, what both set out to store is in the sheet.
C9_LastWriterWins ==
  BothWrote =>
     /\ fact = conc_table(loc[SecondWriter].call, loc[SecondWriter].snapF,
                          loc[SecondWriter].snapC)
     /\ Interleaved =>
          /\ loc[SecondWriter].snapF = loc[FirstWriter].snapF
          /\ fact = gs_write(IF loc[SecondWriter].call.op = "upsert"
                             THEN upsert_frame(loc[FirstWriter].snapF,
                                               loc[SecondWriter].call.rows)
                             ELSE sync_frame(loc[FirstWriter].snapF, cont))
     /\ ~Interleaved =>
          /\ Present(loc[FirstWriter].call, cont, fact)
          /\ Present(loc[SecondWriter].call, cont, fact)

\* C9 witness: both read, both wrote, and what the first writer stored is
\* not in the sheet
C9_Witness ==
  /\ BothWrote
  /\ Interleaved
  /\ Present(loc[FirstWriter].call, cont,
             conc_table(loc[FirstWriter].call, loc[FirstWriter].snapF,
                        loc[FirstWriter].snapC))
  /\ ~Present(loc[FirstWriter].call, cont, fact)

(* --------------------------- load_from_notion ------------------------- *)

\* a checkbox value
B(b) == [k |-> "b", s |-> <<>>, n |-> IF b THEN 1 ELSE 0]

\* JSON values of a property: a list, null, an object with name / start,
\* or a scalar
JList(items) == [j |-> "list", items |-> items, name |-> Null, start |-> Null, val |-> Null]
JNull == [j |-> "null", items |-> <<>>, name |-> Null, start |-> Null, val |-> Null]
JObj(name, start) == [j |-> "obj", items |-> <<>>, name |-> name, start |-> start, val |-> Null]
JVal(v) == [j |-> "val", items |-> <<>>, name |-> Null, start |-> Null, val |-> v]

\* sep.join(texts)
RECURSIVE Join(_, _)
Join(sep, texts) ==
  IF texts = <<>> THEN <<>>
  ELSE IF Len(texts) = 1 THEN texts[1]
       ELSE texts[1] \o <<sep>> \o Join(sep, Tail(texts))

\* bool(v) of a JSON scalar
Truthy(v) == v.j = "val" /\ notna(v.val) /\ v.val # B(FALSE) /\ v.val # T(<<>>)
               /\ v.val # N(0)

\* _prop_to_value
prop_to_value(p) ==
  CASE p.type \in {"title", "rich_text"} ->
         IF p.v.j = "list" THEN T(Join(" ", p.v.items)) ELSE T(<<>>)
    [] p.type = "number" -> p.v.val
    [] p.type = "select" -> IF p.v.j = "obj" THEN p.v.name ELSE Null
    [] p.type = "multi_select" ->
         IF p.v.j = "list" THEN T(Join(",", p.v.items)) ELSE T(<<>>)
    [] p.type = "date" -> IF p.v.j = "obj" THEN p.v.start ELSE Null
    [] p.type = "checkbox" -> B(Truthy(p.v))
    [] OTHER -> p.v.val

\* row = {k: _prop_to_value(v) for k, v in props.items()}
RowOf(page) ==
  [i \in DOMAIN page |-> [name |-> page[i].name, value |-> prop_to_value(page[i].prop)]]

\* for page in data.get("results", []): results.append(row)
RowsOf(pages) == [i \in DOMAIN pages |-> RowOf(pages[i])]

RECURSIVE AddKeys(_, _)
AddKeys(cols, row) ==
  IF row = <<>> THEN cols
  ELSE AddKeys(IF Head(row).name \in Range(cols) THEN cols
               ELSE Append(cols, Head(row).name),
               Tail(row))

RECURSIVE KeysOf(_, _)
KeysOf(cols, rows) ==
  IF rows = <<>> THEN cols ELSE KeysOf(AddKeys(cols, Head(rows)), Tail(rows))

\* pd.DataFrame(results): the keys in the order first met, NaN where a row
\* has no such key
FrameOf(rows) ==
  LET cols == KeysOf(<<>>, rows)
  IN  [cols |-> cols,
       rows |-> [r \in DOMAIN rows |->
                  [i \in DOMAIN cols |->
                     IF \E n \in DOMAIN rows[r] : rows[r][n].name = cols[i]
                     THEN rows[r][CHOOSE n \in DOMAIN rows[r] :
                                    rows[r][n].name = cols[i]].value
                     ELSE Null]]]

\* if not next_cursor
NoCursor(c) == ~notna(c) \/ c = T(<<>>)

\* the request body: {} or {"start_cursor": cursor}
NoPayload == [has |-> FALSE, start_cursor |-> Null]

\* payload["start_cursor"] = next_cursor
next_payload(payload, cursor) == [has |-> TRUE, start_cursor |-> cursor]

\* responses the endpoint may give to one query
MaxPages == 3

PageA ==
  << [name |-> <<"nombre">>,
      prop |-> [type |-> "title", v |-> JList(<<<<"Ana">>, <<"Ruiz">>>>)]],
     [name |-> <<"Precio">>, prop |-> [type |-> "number", v |-> JVal(N(100))]],
     [name |-> <<"IVA">>, prop |-> [type |-> "number", v |-> JVal(N(16))]] >>

PageB ==
  << [name |-> <<"nombre">>, prop |-> [type |-> "rich_text", v |-> JList(<<>>)]],
     [name |-> <<"Precio">>, prop |-> [type |-> "number", v |-> JNull]],
     [name |-> <<"estado">>,
      prop |-> [type |-> "select", v |-> JObj(T(<<"Pagada">>), Null)]],
     [name |-> <<"tags">>,
      prop |-> [type |-> "multi_select", v |-> JList(<<<<"a">>, <<"b">>>>)]],
     [name |-> <<"fecha">>,
      prop |-> [type |-> "date", v |-> JObj(Null, T(<<"2024-01-05">>))]],
     [name |-> <<"pagado">>, prop |-> [type |-> "checkbox", v |-> JVal(B(TRUE))]],
     [name |-> <<"link">>, prop |-> [type |-> "url", v |-> JVal(T(<<"u">>))]] >>

PageC ==
  << [name |-> <<"estado">>, prop |-> [type |-> "select", v |-> JNull]],
     [name |-> <<"nombre">>, prop |-> [type |-> "title", v |-> JNull]] >>

\* two properties whose names are aliases of one canonical field
PageD ==
  << [name |-> <<"Precio">>, prop |-> [type |-> "number", v |-> JVal(N(100))]],
     [name |-> <<"PV">>, prop |-> [type |-> "number", v |-> JVal(N(90))]] >>

Responses ==
  { [ok |-> FALSE, results |-> <<>>, next_cursor |-> Null] } \cup
  { [ok |-> TRUE, results |-> ps, next_cursor |-> c] :
      ps \in { <<>>, <<PageA>>, <<PageB, PageC>>, <<PageD>> },
      c \in { Null, T(<<>>), T(<<"c1">>), T(<<"c2">>) } }

NotionStart ==
  [pc |-> "running", payload |-> NoPayload, results |-> <<>>,
   sent |-> <<>>, got |-> <<>>, out |-> NotRun]

InitNotion ==
  /\ notion = NotionStart
  /\ fact = EmptySheet /\ cont = EmptySheet /\ last = NoCall /\ nops = 0
  /\ pc = IdleConc /\ loc = IdleConc /\ events = <<>>
  /\ ntab = EmptyDF /\ nres = EmptyDF

\* one turn of the while loop, and on its break the rest of the call:
\* "failed" is raise_for_status raising, "raised" the normaliser raising
load_from_notion ==
  /\ notion.pc = "running"
  /\ Len(notion.sent) < MaxPages
  /\ \E resp \in Responses :
       LET sent == Append(notion.sent, notion.payload)
           got == Append(notion.got, resp)
           results == notion.results \o RowsOf(resp.results)
           df == normalize_columns(FrameOf(results))
       IN  notion' =
             IF ~resp.ok
             THEN [notion EXCEPT !.pc = "failed", !.sent = sent, !.got = got]
             ELSE IF NoCursor(resp.next_cursor)
                  THEN [notion EXCEPT
                          !.pc = IF df.status = "ok" THEN "returned" ELSE "raised",
                          !.sent = sent, !.got = got, !.results = results,
                          !.out = IF df.status = "ok" THEN df ELSE NotRun]
                  ELSE [notion EXCEPT
                          !.sent = sent, !.got = got, !.results = results,
                          !.payload = next_payload(notion.payload, resp.next_cursor)]
  /\ UNCHANGED <<fact, cont, last, nops, pc, loc, events, ntab, nres>>

NextNotion == load_from_notion

SpecNotion == InitNotion /\ [][NextNotion]_vars

\* the rows of all the pages of the responses, in the order received
RECURSIVE AllRows(_)
AllRows(got) ==
  IF got = <<>> THEN <<>> ELSE RowsOf(Head(got).results) \o AllRows(Tail(got))

\* the response asks for another query
Continues(resp) == resp.ok /\ notna(resp.next_cursor) /\ resp.next_cursor # T(<<>>)

\* the first query carries no cursor, every later one the next_cursor of
\* the response before it
C11_Requests ==
  /\ Len(notion.sent) = Len(notion.got)
  /\ \A n \in DOMAIN notion.sent :
       IF n = 1 THEN ~notion.sent[n].has
       ELSE /\ notion.sent[n].has
            /\ notion.sent[n].start_cursor = notion.got[n - 1].next_cursor

\* the loop is over exactly when some response carries no next cursor or
\* is a failure, and that response is the last one received
C11_Stops ==
  /\ notion.pc # "running" <=> \E n \in DOMAIN notion.got : ~Continues(notion.got[n])
  /\ \A n \in DOMAIN notion.got : n < Len(notion.got) => Continues(notion.got[n])

\* a failure response fails the call, which returns nothing
C11_Failure ==
  (\E n \in DOMAIN notion.got : ~notion.got[n].ok) <=>
    (notion.pc = "failed" /\ notion.out = NotRun)

\* after a success response without a next cursor the call has returned
\* the rows of all pages, in page order
C11_Returns ==
  (notion.got # <<>> /\ notion.got[Len(notion.got)].ok
     /\ ~Continues(notion.got[Len(notion.got)]))
  => /\ notion.pc = "returned"
     /\ notion.out = normalize_columns(FrameOf(AllRows(notion.got)))
     /\ Len(notion.out.rows) = Len(AllRows(notion.got))

\* C11: load_from_notion sends its queries one after another, the first
\* without a cursor and each later one with the next_cursor of the
\* previous response; it stops at the first response without a next
\* cursor and then returns the rows of all pages fetched, in page order;
\* a failure response fails the call, which returns no rows; the loop ends
\* exactly when some response carries no next cursor or is a failure.
C11_Pagination == C11_Requests /\ C11_Stops /\ C11_Failure /\ C11_Returns

\* a call that returned after two pages of rows
ReturnedTwoPages ==
  /\ notion.pc = "returned"
  /\ Len(notion.got) = 2
  /\ notion.got[1].results = <<PageA>>
  /\ notion.got[2].results = <<PageB, PageC>>
  /\ notion.sent[2].start_cursor = notion.got[1].next_cursor
  /\ Len(notion.out.rows) = 3
  /\ notion.out.rows[1][2] = N(100)

\* a call whose last page came without a cursor and that returned nothing
RaisedAfterLastPage ==
  /\ notion.pc = "raised"
  /\ notion.got[Len(notion.got)].ok
  /\ ~Continues(notion.got[Len(notion.got)])

====
